---------------------------- MODULE Spec2Model ----------------------------
(***************************************************************************)
(* Initial-form-value reconciliation of the patient registration form:     *)
(* useInitialFormValuesLocal, useMpiInitialFormValues and the copy of the  *)
(* master-index form-state done by the PatientRegistration component.      *)
(* onFormSubmit of the component is modelled in SpecSubmit.                *)
(* usePatientUuidMap is modelled on its own (SpecUuidMap).                 *)
(*                                                                         *)
(* React is modelled by what the hooks rely on:                            *)
(*  - a render captures the latest state of every useState cell and the    *)
(*    value each data hook returns (rendered, mpiRendered, src);           *)
(*  - the passive effects of one commit run together, in declaration       *)
(*    order, each only when one of its dependencies changed, and each      *)
(*    reads the values its render captured;                                *)
(*  - a state update is applied in the order it was queued: a value        *)
(*    replaces the state, an updater function is applied to the state as   *)
(*    left by the updates queued before it (latest, mpiLatest);            *)
(*  - a promise continuation (after an await) runs at any later time.      *)
(***************************************************************************)
EXTENDS Integers, Sequences, FiniteSets, TLC

VARIABLES
  now,              \* current date of the session (dayjs()), <<year, month, day>>
  patientUuid,      \* route parameter handed to useInitialFormValuesLocal
  sourcePatientId,  \* ?sourceRecord= handed to useMpiInitialFormValues
  src,              \* what each data hook returns: [status, data]
  syncQueue,        \* content of the offline synchronization queue
  rendered,         \* initialFormValues as captured by the last render
  latest,           \* initialFormValues after every update queued so far
  mpiRendered,      \* initialMPIFormValues as captured by the last render
  mpiLatest,        \* initialMPIFormValues after every update queued so far
  formChanged,      \* initialFormValues was set since the last render
  mpiFormChanged,   \* initialMPIFormValues was set since the last render
  dirty,            \* effects of the last commit that still have to run
  lookups,          \* getPatientRegistration calls in flight (requested uuid)
  mpiCalls,         \* getIdentifierFieldValuesFromFhirPatient calls in flight
  fired,            \* merges that called their setter in the last effect pass
  threw,            \* an async effect body rejected (uncaught TypeError)
  logged,           \* console.error was called by the offline-draft branch
  mounted,          \* effects of the hooks that are mounted
  patientUuidMap,   \* state cell of usePatientUuidMap and its pending work
  submission        \* onFormSubmit: target, isSubmitting and the call in flight

vars == <<now, patientUuid, sourcePatientId, src, syncQueue, rendered, latest,
          mpiRendered, mpiLatest, formChanged, mpiFormChanged, dirty, lookups,
          mpiCalls, fired, threw, logged, mounted, patientUuidMap,
          submission>>

-----------------------------------------------------------------------------
(* Bounds *)

\* getPatientRegistration promises that may be pending at once
MaxLookups == 1

-----------------------------------------------------------------------------
(* Values *)

NoUuid == ""
P1 == "p1"
P2 == "p2"
M1 == "m1"
Undef == "undefined"
Null == "null"
GenLocal == "v4-local"
GenMpi == "v4-mpi"
FreeTextFieldConceptUuid == "free-text-concept"
PhoneAttributeUuid == "phone-attr"

Sources == {"patient", "death", "attributes", "identifiers", "relationships",
            "encounters", "mpi"}

\* The four sources keyed by the patient identifier alone.
PersonSources == {"death", "attributes", "identifiers", "relationships"}

NoData == [kind |-> "none"]

\* Absent optional field (attributes, obs) and empty map.
Absent == [defined |-> FALSE, entries |-> {}]
Map(es) == [defined |-> TRUE, entries |-> es]

DefaultFormValues(uuid) ==
  [patientUuid |-> uuid,
   givenName |-> "", middleName |-> "", familyName |-> "",
   gender |-> "", birthdate |-> <<>>,
   yearsEstimated |-> 0, monthsEstimated |-> 0, birthdateEstimated |-> FALSE,
   telephoneNumber |-> "", phoneAttribute |-> Undef,
   isDead |-> FALSE, deathDate |-> [present |-> FALSE, hour |-> 0],
   deathTime |-> [defined |-> FALSE, hh |-> 0],
   deathTimeFormat |-> "AM", deathCause |-> "", nonCodedCauseOfDeath |-> "",
   relationships |-> <<>>, identifiers |-> Map({}), address |-> Map({}),
   attributes |-> Absent, obs |-> Absent]

\* { ...base, ...upd }
Overlay(base, upd) ==
  [k \in DOMAIN base |-> IF k \in DOMAIN upd THEN upd[k] ELSE base[k]]


\* An object literal assignment map[key] = value: a later key replaces.
MapPut(es, k, v) == {e \in es : e.key # k} \cup {[key |-> k, value |-> v]}

MapKeys(m) == {e.key : e \in m.entries}

-----------------------------------------------------------------------------
(* What the backend, the queue and the configuration can hold *)

\* The date of the session in which the sources are interleaved.
Today == <<2024, 3, 10>>

\* The FHIR patient usePatient delivers for P1.
CoreRecord ==
  [kind |-> "patient", id |-> P1, givenName |-> "Ann", familyName |-> "Lee",
   gender |-> "female", birthDate |-> <<1990, 6>>,
   address |-> {[key |-> "cityVillage", value |-> "Kisumu"]},
   phone |-> "555"]

NoDate == [present |-> FALSE, hour |-> 0]
NoTime == [defined |-> FALSE, hh |-> 0]

\* Answers of person/<uuid>?v=custom:(...,causeOfDeath,dead,deathDate,...)
DeathInfos ==
  {[kind |-> "death", dead |-> FALSE, causeOfDeath |-> Null,
    causeOfDeathNonCoded |-> Null, deathDate |-> NoDate],
   [kind |-> "death", dead |-> TRUE, causeOfDeath |-> "concept-malaria",
    causeOfDeathNonCoded |-> Null, deathDate |-> [present |-> TRUE, hour |-> 14]],
   [kind |-> "death", dead |-> TRUE, causeOfDeath |-> Null,
    causeOfDeathNonCoded |-> "fell from a tree", deathDate |-> NoDate]}

\* Answer of person/<uuid>/attribute: one coded and one scalar attribute.
AttributeResults ==
  <<[uuid |-> "attr-1", typeUuid |-> "type-civil", format |-> "org.openmrs.Concept",
     isObject |-> TRUE, value |-> "concept-married", display |-> "Married"],
    [uuid |-> "attr-2", typeUuid |-> "type-birthplace", format |-> "java.lang.String",
     isObject |-> FALSE, value |-> "Kisumu", display |-> "Kisumu"]>>

\* Identifier-type names.
OpenMrsIdName == <<"O", "p", "e", "n", "M", "R", "S", " ", "I", "D">>
NationalIdName == <<"N", "a", "t", "i", "o", "n", "a", "l", " ", "I", "D">>

\* Answer of patient/<uuid>/identifier.
IdentifierResults ==
  <<[uuid |-> "id-1", identifier |-> "100GEJ", preferred |-> TRUE,
     typeUuid |-> "type-openmrs", typeName |-> OpenMrsIdName,
     required |-> TRUE]>>

RelationshipResults == <<"rel-1">>

\* Answer of encounter?patient=<uuid>&encounterType=<type>: two registration
\* encounters, the older one listed first. A value is a concept reference
\* (an object) or a scalar.
EncounterResults ==
  <<[encounterDatetime |-> 1,
     obs |-> <<[concept |-> "concept-occupation", isObject |-> TRUE,
                uuid |-> "concept-teacher", scalar |-> Null]>>],
    [encounterDatetime |-> 2,
     obs |-> <<[concept |-> "concept-occupation", isObject |-> TRUE,
                uuid |-> "concept-farmer", scalar |-> Null],
               [concept |-> "concept-employer", isObject |-> FALSE,
                uuid |-> Null, scalar |-> "Acme"]>>]>>

\* External identifiers of the master-index record: one whose system is
\* mapped to a local identifier type, one whose system is not.
MpiIdentifiers ==
  <<[system |-> "sys-national", value |-> "N-77"],
    [system |-> "sys-foreign", value |-> "F-12"]>>

IdentifierMappings ==
  {[fhirIdentifierSystem |-> "sys-national", identifierTypeUuid |-> "type-national",
    identifierName |-> NationalIdName]}

MpiRecord(withIdentifier) ==
  [kind |-> "mpi", id |-> M1, givenName |-> "Mia", familyName |-> "Otieno",
   gender |-> "female", birthDate |-> <<1985, 2, 20>>,
   address |-> {[key |-> "cityVillage", value |-> "Nairobi"]},
   phone |-> "777",
   identifier |-> [defined |-> withIdentifier,
                   list |-> IF withIdentifier THEN MpiIdentifiers ELSE <<>>]]

MpiRecords == {MpiRecord(TRUE), MpiRecord(FALSE)}

\* A queued registration: _patientRegistrationData of item `forPatient`, with
\* or without its formValues.
QueueItem(uuid, withFormValues) ==
  [forPatient |-> uuid, hasFormValues |-> withFormValues,
   formValues |-> Overlay(DefaultFormValues(uuid),
     [givenName |-> "Bob", familyName |-> "Draft", gender |-> "male",
      identifiers |-> Map({[key |-> <<<<"o", "p", "e", "n">>, <<"m", "r", "s">>, <<"i", "d">>>>,
                            value |-> [identifierValue |-> "DRAFT-1",
                                       initialValue |-> "DRAFT-1"]]})])]

\* Contents getSynchronizationItems can return.
SyncQueues ==
  {<<>>,
   <<QueueItem(P2, TRUE)>>,
   <<QueueItem(P2, TRUE), QueueItem(P1, TRUE)>>,
   <<QueueItem(P1, FALSE)>>}

-----------------------------------------------------------------------------
(* Pure helpers *)

\* dayjs(birthDate): a missing month or day is the first.
ParseDate(d) ==
  <<d[1], IF Len(d) > 1 THEN d[2] ELSE 1, IF Len(d) > 2 THEN d[3] ELSE 1>>

\* dayjs().diff(date, 'month') for a date that is not after now: the whole
\* months between the two.
DiffMonths(today, date) ==
  LET d == ParseDate(date)
      whole == (today[1] - d[1]) * 12 + (today[2] - d[2])
  IN IF today[3] < d[3] THEN whole - 1 ELSE whole

\* Every stored birthdate taken as an estimate.
BirthdateAlwaysEstimated(birthDate) == TRUE

\* !/^\d{4}-\d{2}-\d{2}$/.test(birthDate)
BirthdateEstimated(birthDate) == Len(birthDate) # 3

YearsEstimated(birthDate) ==
  IF BirthdateEstimated(birthDate) THEN DiffMonths(now, birthDate) \div 12 ELSE 0

\* The estimate of the months without its test that the stored birthdate has
\* a month.
MonthsEstimatedFromDiff(birthDate) ==
  IF BirthdateEstimated(birthDate) THEN DiffMonths(now, birthDate) % 12 ELSE 0

MonthsEstimated(birthDate) ==
  IF BirthdateEstimated(birthDate) /\ Len(birthDate) > 1
  THEN DiffMonths(now, birthDate) % 12 ELSE 0

\* getFormValuesFromFhirPatient
FormValuesFromFhirPatient(p) ==
  [patientUuid |-> p.id, givenName |-> p.givenName, familyName |-> p.familyName,
   gender |-> p.gender, birthdate |-> p.birthDate, telephoneNumber |-> p.phone]

\* getAddressFieldValuesFromFhirPatient
AddressFieldValuesFromFhirPatient(p) == Map(p.address)

\* getPhonePersonAttributeValueFromFhirPatient
PhonePersonAttributeValueFromFhirPatient(p) == p.phone

\* A name is a sequence of characters.
UpperCaseLetters ==
  <<"A", "B", "C", "D", "E", "F", "G", "H", "I", "J", "K", "L", "M",
    "N", "O", "P", "Q", "R", "S", "T", "U", "V", "W", "X", "Y", "Z">>
LowerCaseLetters ==
  <<"a", "b", "c", "d", "e", "f", "g", "h", "i", "j", "k", "l", "m",
    "n", "o", "p", "q", "r", "s", "t", "u", "v", "w", "x", "y", "z">>

IsUpper(c) == \E i \in DOMAIN UpperCaseLetters : UpperCaseLetters[i] = c
IsLower(c) == \E i \in DOMAIN LowerCaseLetters : LowerCaseLetters[i] = c

ToLower(c) ==
  IF IsUpper(c)
  THEN LowerCaseLetters[CHOOSE i \in DOMAIN UpperCaseLetters : UpperCaseLetters[i] = c]
  ELSE c

\* Last position of the run of letters of the list `letters` that starts at i.
RunEnd(name, i, letters) ==
  CHOOSE j \in i..Len(name) :
     /\ \A k \in i..j : \E l \in DOMAIN letters : letters[l] = name[k]
     /\ j = Len(name) \/ \A l \in DOMAIN letters : letters[l] # name[j + 1]

\* Last position of the word lodash's words() starts at the letter i: an
\* optional capital with the small letters after it, or a run of capitals up
\* to the capital that starts a capitalised word.
WordEnd(name, i) ==
  IF IsLower(name[i]) THEN RunEnd(name, i, LowerCaseLetters)
  ELSE IF i < Len(name) /\ IsLower(name[i + 1]) THEN RunEnd(name, i + 1, LowerCaseLetters)
  ELSE LET k == RunEnd(name, i, UpperCaseLetters)
       IN IF k < Len(name) /\ IsLower(name[k + 1]) THEN k - 1 ELSE k

RECURSIVE WordsFrom(_, _)
WordsFrom(name, i) ==
  IF i > Len(name) THEN <<>>
  ELSE IF ~(IsUpper(name[i]) \/ IsLower(name[i])) THEN WordsFrom(name, i + 1)
  ELSE LET j == WordEnd(name, i)
       IN <<SubSeq(name, i, j)>> \o WordsFrom(name, j + 1)

\* lodash words(): the words of a name made of letters and separators.
Words(name) == WordsFrom(name, 1)

\* camelCase without lower-casing its words.
CamelCaseKeepingCase(name) == Words(name)

\* lodash camelCase: every word lower-cased, every word but the first
\* capitalised, joined. The key is held as the sequence of its lower-cased
\* words, which the capitals of the joined string delimit.
CamelCase(name) ==
  LET ws == Words(name)
  IN [w \in DOMAIN ws |-> [c \in DOMAIN ws[w] |-> ToLower(ws[w][c])]]

RECURSIVE IdentifierEntriesFirstWins(_)
\* The loop with an assignment that keeps the entry a key already has.
IdentifierEntriesFirstWins(results) ==
  IF results = <<>> THEN {}
  ELSE LET n == Len(results)
           r == results[n]
           before == IdentifierEntriesFirstWins(SubSeq(results, 1, n - 1))
       IN IF \E e \in before : e.key = CamelCase(r.typeName) THEN before
          ELSE before \cup
               {[key |-> CamelCase(r.typeName),
                 value |-> [identifierUuid |-> r.uuid, preferred |-> r.preferred,
                            initialValue |-> r.identifier,
                            identifierValue |-> r.identifier,
                            identifierTypeUuid |-> r.typeUuid,
                            identifierName |-> r.typeName,
                            required |-> r.required, selectedSource |-> Null,
                            autoGeneration |-> FALSE]]}

RECURSIVE IdentifierEntries(_)
\* forEach over data.data.results of useInitialPatientIdentifiers
IdentifierEntries(results) ==
  IF results = <<>> THEN {}
  ELSE LET n == Len(results)
           r == results[n]
       IN MapPut(IdentifierEntries(SubSeq(results, 1, n - 1)),
                 CamelCase(r.typeName),
                 [identifierUuid |-> r.uuid, preferred |-> r.preferred,
                  initialValue |-> r.identifier, identifierValue |-> r.identifier,
                  identifierTypeUuid |-> r.typeUuid, identifierName |-> r.typeName,
                  required |-> r.required, selectedSource |-> Null,
                  autoGeneration |-> FALSE])

RECURSIVE PersonAttributesByDisplay(_)
\* The loop storing what a concept reference displays instead of its uuid.
PersonAttributesByDisplay(attributes) ==
  IF attributes = <<>> THEN {}
  ELSE LET n == Len(attributes)
           a == attributes[n]
       IN MapPut(PersonAttributesByDisplay(SubSeq(attributes, 1, n - 1)), a.typeUuid,
                 IF a.format = "org.openmrs.Concept" /\ a.isObject
                 THEN [kind |-> "scalar", v |-> a.display]
                 ELSE IF a.isObject THEN [kind |-> "object", v |-> a.value]
                 ELSE [kind |-> "scalar", v |-> a.value])

RECURSIVE PersonAttributes(_)
\* forEach over the attributes of the attribute effect
PersonAttributes(attributes) ==
  IF attributes = <<>> THEN {}
  ELSE LET n == Len(attributes)
           a == attributes[n]
       IN MapPut(PersonAttributes(SubSeq(attributes, 1, n - 1)), a.typeUuid,
                 IF a.format = "org.openmrs.Concept" /\ a.isObject
                 THEN [kind |-> "uuid", v |-> a.value]
                 ELSE IF a.isObject THEN [kind |-> "object", v |-> a.value]
                 ELSE [kind |-> "scalar", v |-> a.value])

RECURSIVE MappedIdentifiers(_)
\* getIdentifierFieldValuesFromFhirPatient: identifiers whose system has a
\* configured mapping, keyed by the local identifier type.
MappedIdentifiers(list) ==
  IF list = <<>> THEN {}
  ELSE LET n == Len(list)
           id == list[n]
           rest == MappedIdentifiers(SubSeq(list, 1, n - 1))
           ms == {m \in IdentifierMappings : m.fhirIdentifierSystem = id.system}
       IN IF ms = {} THEN rest
          ELSE LET m == CHOOSE x \in ms : TRUE
               IN MapPut(rest, CamelCase(m.identifierName),
                         [identifierTypeUuid |-> m.identifierTypeUuid,
                          identifierName |-> m.identifierName,
                          initialValue |-> id.value, identifierValue |-> id.value,
                          selectedSource |-> Null, autoGeneration |-> FALSE])

-----------------------------------------------------------------------------
(* What the hooks of one render see *)

IsLoading(s) == src[s].status = "loading"
HasData(s) == src[s].status = "ok"

\* registrationObs.encounterTypeUuid is configured.
EncounterTypeConfigured == TRUE

\* Data a successful fetch of source s can deliver.
DataOf(s) ==
  CASE s = "patient" -> {CoreRecord}
    [] s = "death" -> DeathInfos
    [] s = "attributes" -> {[kind |-> "attributes", results |-> AttributeResults]}
    [] s = "identifiers" -> {[kind |-> "identifiers", results |-> IdentifierResults]}
    [] s = "relationships" -> {[kind |-> "relationships", results |-> RelationshipResults]}
    [] s = "encounters" -> {[kind |-> "encounters", results |-> EncounterResults]}
    [] s = "mpi" -> MpiRecords

\* The comparator of sort: an encounter goes before the later ones.
LatestFirstEncounter(a, b) == a.encounterDatetime > b.encounterDatetime

\* The encounter the code would take without sorting: the first listed.
FirstListedEncounter(results) == results[1]

\* results.sort(latestFirstEncounter).at(0): no encounter goes before it, and
\* of those the sort, being stable, puts the first listed in front.
MostRecentEncounter(results) ==
  results[CHOOSE i \in DOMAIN results :
            /\ \A j \in DOMAIN results : ~LatestFirstEncounter(results[j], results[i])
            /\ \A j \in 1..(i - 1) : LatestFirstEncounter(results[i], results[j])]

RECURSIVE ObsEntries(_)
\* obs.map(({concept, value}) => ({[concept.uuid]: typeof value === 'object'
\* ? value?.uuid : value})).reduce(Object.assign, {})
ObsEntries(obs) ==
  IF obs = <<>> THEN {}
  ELSE LET n == Len(obs)
           o == obs[n]
       IN MapPut(ObsEntries(SubSeq(obs, 1, n - 1)), o.concept,
                 IF o.isObject THEN o.uuid ELSE o.scalar)

\* useInitialEncounters: the map of the hook, undefined without an encounter.
InitialEncounters ==
  IF HasData("encounters") /\ src["encounters"].data.results # <<>>
  THEN Map(ObsEntries(MostRecentEncounter(src["encounters"].data.results).obs))
  ELSE Absent

\* useInitialPatientIdentifiers: the memoised map, empty while data is missing.
InitialPatientIdentifiers ==
  Map(IF HasData("identifiers")
      THEN IdentifierEntries(src["identifiers"].data.results) ELSE {})

\* Dependencies of each effect, in the order the effects are declared.
Effects == <<"core", "death", "relationships", "identifiers", "attributes",
             "encounters", "mpi", "copy">>

Deps(e) ==
  CASE e = "core" -> {"form", "patient", "patientUuid"}
    [] e = "death" -> {"death"}
    [] e = "relationships" -> {"relationships"}
    [] e = "identifiers" -> {"identifiers"}
    [] e = "attributes" -> {"attributes"}
    [] e = "encounters" -> {"encounters", "patient"}
    [] e = "mpi" -> {"mpi"}
    [] e = "copy" -> {"mpiForm"}

AllDeps == UNION {Deps(Effects[i]) : i \in DOMAIN Effects}

-----------------------------------------------------------------------------
(* The merges *)

\* setInitialFormValues({...initialFormValues, ...}) of the core-record branch
CoreMerge(snapshot, p) ==
  Overlay(Overlay(snapshot, FormValuesFromFhirPatient(p)),
    [address |-> AddressFieldValuesFromFhirPatient(p),
     phoneAttribute |-> PhonePersonAttributeValueFromFhirPatient(p),
     birthdateEstimated |-> BirthdateEstimated(p.birthDate),
     yearsEstimated |-> YearsEstimated(p.birthDate),
     monthsEstimated |-> MonthsEstimated(p.birthDate)])

\* The death-info update as a value built from the default rather than an
\* updater applied to the previous state.
DeathMergeOntoDefault(prev, d) ==
  Overlay(DefaultFormValues(GenLocal),
    [isDead |-> d.dead, deathDate |-> d.deathDate,
     nonCodedCauseOfDeath |-> d.causeOfDeathNonCoded])

\* The death-info update that always takes the coded cause.
DeathMergeCodedOnly(prev, d) ==
  Overlay(prev,
    [isDead |-> d.dead, deathDate |-> d.deathDate,
     deathCause |-> IF d.causeOfDeath # Null THEN d.causeOfDeath ELSE Undef,
     nonCodedCauseOfDeath |-> Null])

DeathMerge(prev, d) ==
  Overlay(prev,
    [isDead |-> d.dead,
     deathDate |-> d.deathDate,
     deathTime |-> IF d.deathDate.present
                   THEN [defined |-> TRUE,
                         hh |-> IF d.deathDate.hour % 12 = 0 THEN 12
                                ELSE d.deathDate.hour % 12]
                   ELSE NoTime,
     deathTimeFormat |-> IF d.deathDate.present /\ d.deathDate.hour >= 12
                         THEN "PM" ELSE "AM",
     deathCause |-> IF d.causeOfDeathNonCoded # Null THEN FreeTextFieldConceptUuid
                    ELSE IF d.causeOfDeath # Null THEN d.causeOfDeath ELSE Undef,
     nonCodedCauseOfDeath |-> d.causeOfDeathNonCoded])

RelationshipsMerge(prev, data) == Overlay(prev, [relationships |-> data.results])

IdentifiersMerge(prev, identifiers) == Overlay(prev, [identifiers |-> identifiers])

AttributesMerge(prev, data) ==
  Overlay(prev, [attributes |-> Map(PersonAttributes(data.results))])

EncountersMerge(prev, encounters) == Overlay(prev, [obs |-> encounters])

\* The combined merge with every external identifier kept under its system.
MpiMergeKeepingUnmapped(snapshot, p) ==
  Overlay(Overlay(snapshot, FormValuesFromFhirPatient(p)),
    [address |-> AddressFieldValuesFromFhirPatient(p),
     identifiers |-> Map({[key |-> <<p.identifier.list[i].system>>,
                           value |-> [identifierValue |-> p.identifier.list[i].value]] :
                          i \in DOMAIN p.identifier.list})])

\* values of the master-index effect, built after the await
MpiMerge(snapshot, p) ==
  Overlay(Overlay(snapshot, FormValuesFromFhirPatient(p)),
    [address |-> AddressFieldValuesFromFhirPatient(p),
     identifiers |-> Map(MappedIdentifiers(p.identifier.list)),
     attributes |-> Map({[key |-> PhoneAttributeUuid,
                          value |-> [kind |-> "scalar",
                                     v |-> PhonePersonAttributeValueFromFhirPatient(p)]]})])

-----------------------------------------------------------------------------
(* Guards of the effect bodies *)

\* if (patientToEdit)
CoreBranch == HasData("patient")

\* The branch without its isLoadingPatientToEdit test.
LookupBranchIgnoringLoading == ~HasData("patient") /\ patientUuid # NoUuid

\* else if (!isLoadingPatientToEdit && patientUuid)
LookupBranch == ~HasData("patient") /\ ~IsLoading("patient") /\ patientUuid # NoUuid

\* if (!isLoadingDeathInfo && deathInfo?.dead)
DeathGuard == ~IsLoading("death") /\ HasData("death") /\ src["death"].data.dead

\* if (!isLoadingRelationships && relationships)
RelationshipsGuard == ~IsLoading("relationships") /\ HasData("relationships")

\* if (!isLoadingIdentifiers && identifiers): the memoised map is an object
\* whether or not data arrived.
IdentifiersGuard == ~IsLoading("identifiers")

\* if (!isLoadingAttributes && attributes)
AttributesGuard == ~IsLoading("attributes") /\ HasData("attributes")

\* if (patientToEdit && encounters)
EncountersGuard == HasData("patient") /\ InitialEncounters.defined

\* if (mpiPatient?.data?.identifier)
MpiGuard == HasData("mpi") /\ src["mpi"].data.identifier.defined

\* if (initialMPIFormValues): the state cell always holds an object.
CopyGuard == TRUE

\* The effects of the pending pass whose body calls setInitialFormValues.
Firing ==
  {e \in dirty :
     \/ e = "core" /\ CoreBranch
     \/ e = "death" /\ DeathGuard
     \/ e = "relationships" /\ RelationshipsGuard
     \/ e = "identifiers" /\ IdentifiersGuard
     \/ e = "attributes" /\ AttributesGuard
     \/ e = "encounters" /\ EncountersGuard
     \/ e = "copy" /\ CopyGuard}

\* The update effect e queues, applied to the state left by the updates
\* queued before it. The core branch and the copy queue a value built from
\* what their render captured; the others queue an updater function.
Update(e, prev) ==
  CASE e = "core" -> CoreMerge(rendered, src["patient"].data)
    [] e = "death" -> DeathMerge(prev, src["death"].data)
    [] e = "relationships" -> RelationshipsMerge(prev, src["relationships"].data)
    [] e = "identifiers" -> IdentifiersMerge(prev, InitialPatientIdentifiers)
    [] e = "attributes" -> AttributesMerge(prev, src["attributes"].data)
    [] e = "encounters" -> EncountersMerge(prev, InitialEncounters)
    [] e = "copy" -> mpiRendered
    [] OTHER -> prev

RECURSIVE RunEffects(_, _)
\* The first n effects of the pass, in declaration order.
RunEffects(n, prev) ==
  IF n = 0 THEN prev
  ELSE LET before == RunEffects(n - 1, prev)
       IN IF Effects[n] \in Firing THEN Update(Effects[n], before) ELSE before

-----------------------------------------------------------------------------
(* Actions *)

\* Effects scheduled by a commit in which the dependencies deps changed. The
\* encounter map is rebuilt by every render, so its effect is scheduled by
\* every commit that has one.
Scheduled(deps, hasEncounters) ==
  {Effects[i] : i \in {j \in DOMAIN Effects : Deps(Effects[j]) \cap deps # {}}}
    \cup (IF hasEncounters THEN {"encounters"} ELSE {})

\* The effects of useInitialFormValuesLocal, and those of the component.
LocalEffects == {"core", "death", "relationships", "identifiers", "attributes",
                 "encounters"}
ComponentEffects == LocalEffects \cup {"mpi", "copy"}

\* Dependencies on the two state cells that changed since the last render.
StateDeps ==
  (IF formChanged THEN {"form"} ELSE {}) \cup (IF mpiFormChanged THEN {"mpiForm"} ELSE {})

\* The routes the registration form is opened with: a new patient, a patient
\* to edit (or registered offline), an import from the master index.
Routes == {<<NoUuid, NoUuid>>, <<P1, NoUuid>>, <<NoUuid, M1>>}

\* What the data hooks return at the first render: the fetches are pending,
\* or (warm) the SWR cache already holds the answers of an earlier visit.
InitialSources(uuid, sourceId, warm) ==
  [s \in Sources |->
     IF s = "mpi"
     THEN [status |-> IF sourceId # NoUuid THEN "loading" ELSE "idle", data |-> NoData]
     ELSE IF uuid = NoUuid THEN [status |-> "idle", data |-> NoData]
     ELSE IF s = "encounters"
     THEN [status |-> IF warm /\ EncounterTypeConfigured THEN "loading" ELSE "idle",
           data |-> NoData]
     ELSE IF warm
     THEN [status |-> "ok",
           data |-> CHOOSE d \in DataOf(s) : s = "death" => d.dead /\ d.deathDate.present]
     ELSE [status |-> "loading", data |-> NoData]]

\* The first commit is done and every mounted effect is scheduled. An empty
\* queue stands for every queue when no lookup can be made.
Mount(effects, routes, dates) ==
  /\ mounted = effects
  /\ now \in dates
  /\ \E r \in routes : patientUuid = r[1] /\ sourcePatientId = r[2]
  /\ \E warm \in BOOLEAN :
       /\ warm => patientUuid # NoUuid
       /\ src = InitialSources(patientUuid, sourcePatientId, warm)
       /\ syncQueue \in (IF patientUuid = NoUuid \/ warm THEN {<<>>} ELSE SyncQueues)
  /\ rendered = DefaultFormValues(GenLocal)
  /\ latest = DefaultFormValues(GenLocal)
  /\ mpiRendered = DefaultFormValues(GenMpi)
  /\ mpiLatest = DefaultFormValues(GenMpi)
  /\ formChanged = FALSE
  /\ mpiFormChanged = FALSE
  /\ dirty = Scheduled(AllDeps, FALSE) \cap effects
  /\ lookups = <<>>
  /\ mpiCalls = <<>>
  /\ fired = {}
  /\ threw = FALSE
  /\ logged = FALSE
  /\ patientUuidMap = [rendered |-> {}, latest |-> {}, changed |-> FALSE,
                       dirty |-> {"core", "attributes"}, lookups |-> 0]
  /\ submission = [target |-> Undef, isSubmitting |-> FALSE, saving |-> FALSE,
                   called |-> FALSE, isNewPatient |-> FALSE,
                   fetchAtSubmit |-> "idle", outcome |-> "none", reported |-> 0]

\* The PatientRegistration component.
Init == Mount(ComponentEffects, Routes, {Today})

\* useInitialFormValuesLocal rendered on its own.
InitLocal == Mount(LocalEffects, {r \in Routes : r[2] = NoUuid}, {Today})

\* The commit that follows a change of what source s delivers: the closures
\* capture the latest state, the effects whose dependencies changed are
\* scheduled.
Commit(deps, hasEncounters) ==
  /\ rendered' = latest
  /\ mpiRendered' = mpiLatest
  /\ formChanged' = FALSE
  /\ mpiFormChanged' = FALSE
  /\ dirty' = Scheduled(deps \cup StateDeps, hasEncounters) \cap mounted
  /\ fired' = {}

\* A fetch (or its retry after an error) delivers data and the component
\* renders. The encounter fetch gets its key once the core record is there.
Resolve(s, d) ==
  /\ dirty = {}
  /\ src[s].status \in {"loading", "failed"}
  /\ src' = [src EXCEPT
               ![s] = [status |-> "ok", data |-> d],
               !["encounters"] =
                  IF s = "patient" /\ EncounterTypeConfigured
                  THEN [status |-> "loading", data |-> NoData]
                  ELSE IF s = "encounters" THEN [status |-> "ok", data |-> d]
                  ELSE @]
  /\ Commit({s}, s = "encounters" \/ (s # "patient" /\ HasData("encounters")))
  /\ UNCHANGED <<now, submission, patientUuidMap, patientUuid, sourcePatientId, syncQueue, latest, mpiLatest,
                 lookups, mpiCalls, threw, logged, mounted>>

\* A fetch ends with an error: isLoading turns false, data stays undefined.
Fail(s) ==
  /\ dirty = {}
  /\ src[s].status = "loading"
  /\ src' = [src EXCEPT ![s] = [status |-> "failed", data |-> NoData]]
  /\ Commit({s}, s # "encounters" /\ HasData("encounters"))
  /\ UNCHANGED <<now, submission, patientUuidMap, patientUuid, sourcePatientId, syncQueue, latest, mpiLatest,
                 lookups, mpiCalls, threw, logged, mounted>>

\* A render caused by a queued state update alone.
Render ==
  /\ dirty = {}
  /\ formChanged \/ mpiFormChanged
  /\ Commit({}, HasData("encounters"))
  /\ UNCHANGED <<now, submission, patientUuidMap, patientUuid, sourcePatientId, src, syncQueue, latest, mpiLatest,
                 lookups, mpiCalls, threw, logged, mounted>>

\* The passive effects of the last commit, in declaration order.
FlushEffects ==
  LET startsLookup == "core" \in dirty /\ LookupBranch
      startsMpiCall == "mpi" \in dirty /\ MpiGuard
  IN /\ dirty # {}
     /\ startsLookup => Len(lookups) < MaxLookups
     /\ latest' = RunEffects(Len(Effects), latest)
     /\ fired' = Firing
     /\ formChanged' = (formChanged \/ Firing # {})
     /\ lookups' = IF startsLookup THEN Append(lookups, patientUuid) ELSE lookups
     /\ mpiCalls' = IF startsMpiCall
                    THEN Append(mpiCalls, [snapshot |-> mpiRendered,
                                           patient |-> src["mpi"].data])
                    ELSE mpiCalls
     /\ dirty' = {}
     /\ UNCHANGED <<now, submission, patientUuidMap, patientUuid, sourcePatientId, src, syncQueue, rendered,
                    mpiRendered, mpiLatest, mpiFormChanged, threw, logged, mounted>>

\* find without its comparison of the identifier: the first queued draft.
FindFirst(items, uuid) ==
  IF items = <<>> THEN [outcome |-> "none", item |-> QueueItem(NoUuid, FALSE)]
  ELSE IF ~Head(items).hasFormValues
       THEN [outcome |-> "threw", item |-> QueueItem(NoUuid, FALSE)]
  ELSE [outcome |-> "found", item |-> Head(items)]

RECURSIVE Find(_, _)
\* items.find(item => item._patientRegistrationData.formValues.patientUuid
\* === patientUuid): "threw" when the predicate reads patientUuid of an
\* undefined formValues, "none" when no item matches.
Find(items, uuid) ==
  IF items = <<>> THEN [outcome |-> "none", item |-> QueueItem(NoUuid, FALSE)]
  ELSE IF ~Head(items).hasFormValues
       THEN [outcome |-> "threw", item |-> QueueItem(NoUuid, FALSE)]
  ELSE IF Head(items).formValues.patientUuid = uuid
       THEN [outcome |-> "found", item |-> Head(items)]
  ELSE Find(Tail(items), uuid)

\* getPatientRegistration
PatientRegistrationLookup(uuid) == Find(syncQueue, uuid)

Remove(seq, i) == SubSeq(seq, 1, i - 1) \o SubSeq(seq, i + 1, Len(seq))

\* An adoption that keeps the death info merged before it.
AdoptKeepingDeathInfo(prev, formValues) ==
  Overlay(formValues, [isDead |-> prev.isDead, deathDate |-> prev.deathDate,
                       deathCause |-> prev.deathCause])

\* setInitialFormValues(registration._patientRegistrationData.formValues)
Adopt(prev, formValues) == formValues

\* The continuation of the offline-draft branch after its await.
LookupComplete(i) ==
  LET registration == PatientRegistrationLookup(lookups[i])
      \* registration._patientRegistrationData of undefined throws as well
      rejects == registration.outcome \in {"threw", "none"}
      malformed == ~rejects /\ ~registration.item.hasFormValues
      adopts == ~rejects /\ ~malformed
  IN /\ lookups' = Remove(lookups, i)
     /\ threw' = (threw \/ rejects)
     /\ logged' = (logged \/ malformed)
     /\ latest' = IF adopts THEN Adopt(latest, registration.item.formValues) ELSE latest
     /\ formChanged' = (formChanged \/ adopts)
     /\ UNCHANGED <<now, submission, patientUuidMap, patientUuid, sourcePatientId, src, syncQueue, rendered,
                    mpiRendered, mpiLatest, mpiFormChanged, dirty, mpiCalls, fired,
                    mounted>>

\* The continuation of the master-index effect after its await.
MpiCallComplete(i) ==
  /\ mpiCalls' = Remove(mpiCalls, i)
  /\ mpiLatest' = MpiMerge(mpiCalls[i].snapshot, mpiCalls[i].patient)
  /\ mpiFormChanged' = TRUE
  /\ UNCHANGED <<now, submission, patientUuidMap, patientUuid, sourcePatientId, src, syncQueue, rendered, latest,
                 mpiRendered, formChanged, dirty, lookups, fired, threw, logged,
                 mounted>>

Next ==
  \/ \E s \in Sources : \E d \in DataOf(s) : Resolve(s, d)
  \/ \E s \in Sources : Fail(s)
  \/ Render
  \/ FlushEffects
  \/ \E i \in DOMAIN lookups : LookupComplete(i)
  \/ \E i \in DOMAIN mpiCalls : MpiCallComplete(i)

Spec == Init /\ [][Next]_vars

NextLocal ==
  \/ \E s \in Sources \ {"mpi"} : \E d \in DataOf(s) : Resolve(s, d)
  \/ \E s \in Sources \ {"mpi"} : Fail(s)
  \/ Render
  \/ FlushEffects
  \/ \E i \in DOMAIN lookups : LookupComplete(i)

SpecLocal == InitLocal /\ [][NextLocal]_vars

-----------------------------------------------------------------------------
(* The hook opened for one patient, whose sources end with the cached       *)
(* answer, with the core record or with an error.                           *)

InitSettling == Mount(LocalEffects, {<<P1, NoUuid>>}, {Today})

NextSettling ==
  \/ Resolve("patient", CoreRecord)
  \/ \E d \in DataOf("encounters") : Resolve("encounters", d)
  \/ \E s \in Sources \ {"mpi"} : Fail(s)
  \/ Render
  \/ FlushEffects
  \/ \E i \in DOMAIN lookups : LookupComplete(i)

\* What a step of FlushEffects does to dirty: no other action empties it.
FlushStep ==
  /\ dirty # {}
  /\ ("core" \in dirty /\ LookupBranch) => Len(lookups) < MaxLookups
  /\ dirty' = {}

\* React renders after every state update and runs the effects of every
\* commit; a pending promise is eventually settled.
SpecSettling ==
  /\ InitSettling /\ [][NextSettling]_vars
  /\ WF_vars(Render)
  /\ WF_dirty(FlushStep)
  /\ WF_vars(\E i \in DOMAIN lookups : LookupComplete(i))

-----------------------------------------------------------------------------
(* The form layer writes through the setter the hook returns, once the     *)
(* sources of the patient it edits have all delivered.                      *)

EditedName == "Edited"

\* Edit mode with nothing left to deliver: the core record and the
\* encounters are there, no other fetch is pending.
EditSettled ==
  /\ HasData("patient") /\ HasData("encounters")
  /\ \A s \in PersonSources : ~IsLoading(s)

\* setInitialFormValues({...initialFormValues, givenName}) called by the form
\* layer from an event handler: the effects of the last commit have run.
SetByForm ==
  /\ EditSettled
  /\ dirty = {}
  /\ rendered.givenName # EditedName
  /\ latest' = Overlay(rendered, [givenName |-> EditedName])
  /\ formChanged' = TRUE
  /\ UNCHANGED <<now, submission, patientUuidMap, patientUuid, sourcePatientId, src, syncQueue, rendered,
                 mpiRendered, mpiLatest, mpiFormChanged, dirty, lookups, mpiCalls,
                 fired, threw, logged, mounted>>

NextForm == NextSettling \/ SetByForm

SpecForm == InitSettling /\ [][NextForm]_vars

-----------------------------------------------------------------------------
(* The hook with the inputs of its data shaping drawn from sets: the date of *)
(* the session, the stored birthdate, the identifier-type names.             *)

\* Dates of the session: first and last day of a year, mid-month days.
Dates == {<<2024, 1, 1>>, <<2024, 3, 10>>, <<2024, 12, 31>>, <<2025, 6, 15>>}

\* Stored birthdates: year, year-month and full precision.
BirthDates == {<<1990>>, <<1990, 6>>, <<1990, 6, 15>>, <<2023, 11>>, <<2024, 1, 1>>}

CoreRecordBorn(birthDate) == [CoreRecord EXCEPT !.birthDate = birthDate]

NationalIdMixedName == <<"N", "a", "t", "i", "o", "n", "a", "l", " ", "I", "d">>
NationalIdSpacedName == <<"n", "a", "t", "i", "o", "n", "a", "l", " ", " ", "I", "D">>
OpenmrsIdMixedName == <<"O", "p", "e", "n", "m", "r", "s", " ", "I", "D">>

IdentifierOf(n, name) ==
  [uuid |-> <<"id", n>>, identifier |-> <<"value", n>>, preferred |-> n = 1,
   typeUuid |-> <<"type", n>>, typeName |-> name, required |-> FALSE]

\* Answers of patient/<uuid>/identifier with two identifier types.
IdentifierLists ==
  {<<IdentifierOf(1, NationalIdName), IdentifierOf(2, NationalIdMixedName)>>,
   <<IdentifierOf(1, NationalIdName), IdentifierOf(2, NationalIdSpacedName)>>,
   <<IdentifierOf(1, OpenMrsIdName), IdentifierOf(2, OpenmrsIdMixedName)>>,
   <<IdentifierOf(1, OpenMrsIdName), IdentifierOf(2, NationalIdName)>>}

\* Answers of person/<uuid>/attribute: a coded and a text attribute; a coded
\* attribute and one that refers to a location; two attributes of one type.
AttributeLists ==
  {AttributeResults,
   <<AttributeResults[1],
     [uuid |-> "attr-3", typeUuid |-> "type-clinic", format |-> "org.openmrs.Location",
      isObject |-> TRUE, value |-> "location-kisumu", display |-> "Kisumu Clinic"]>>,
   <<AttributeResults[2],
     [uuid |-> "attr-4", typeUuid |-> "type-birthplace", format |-> "java.lang.String",
      isObject |-> FALSE, value |-> "Nairobi", display |-> "Nairobi"]>>}

InitInputs == Mount(LocalEffects, {<<P1, NoUuid>>}, Dates)

NextInputs ==
  \/ \E b \in BirthDates : Resolve("patient", CoreRecordBorn(b))
  \/ \E l \in IdentifierLists :
        Resolve("identifiers", [kind |-> "identifiers", results |-> l])
  \/ \E l \in AttributeLists :
        Resolve("attributes", [kind |-> "attributes", results |-> l])
  \/ Render
  \/ FlushEffects

SpecInputs == InitInputs /\ [][NextInputs]_vars

-----------------------------------------------------------------------------
(* The hook kept mounted while the death info is fetched again and while   *)
(* the route changes to another patient.                                    *)

\* The FHIR patient usePatient delivers for uuid.
CoreRecordOf(uuid) == [CoreRecord EXCEPT !.id = uuid]

\* SWR fetches the death info again (focus, reconnect, mutate) and the answer
\* differs: isLoading stays false, data changes and the component renders.
Refetch(s, d) ==
  /\ dirty = {}
  /\ src[s].status = "ok"
  /\ d # src[s].data
  /\ src' = [src EXCEPT ![s] = [status |-> "ok", data |-> d]]
  /\ Commit({s}, HasData("encounters"))
  /\ UNCHANGED <<now, submission, patientUuidMap, patientUuid, sourcePatientId, syncQueue, latest, mpiLatest,
                 lookups, mpiCalls, threw, logged, mounted>>

\* The hook is rendered with the identifier of another patient: every SWR key
\* changes, so every fetch starts again without data, and the effects whose
\* dependencies changed are scheduled.
ChangePatient ==
  LET pending == InitialSources(P2, sourcePatientId, FALSE)
  IN /\ dirty = {}
     /\ patientUuid = P1
     /\ patientUuid' = P2
     /\ src' = pending
     /\ Commit({"patientUuid"} \cup {s \in Sources : src[s] # pending[s]}, FALSE)
     /\ UNCHANGED <<now, submission, patientUuidMap, sourcePatientId, syncQueue, latest, mpiLatest, lookups,
                    mpiCalls, threw, logged, mounted>>

NextRefetch ==
  \/ Resolve("patient", CoreRecordOf(patientUuid))
  \/ \E d \in DataOf("death") : Resolve("death", d)
  \/ \E d \in DataOf("encounters") : Resolve("encounters", d)
  \/ Fail("patient")
  \/ \E d \in DataOf("death") : Refetch("death", d)
  \/ ChangePatient
  \/ Render
  \/ FlushEffects
  \/ \E i \in DOMAIN lookups : LookupComplete(i)

SpecRefetch == InitSettling /\ [][NextRefetch]_vars

-----------------------------------------------------------------------------
(* usePatientUuidMap rendered on its own for patient P1. The component     *)
(* passes no fallback, so the default `{}` is a new object at every render  *)
(* and the first effect runs after every render.                            *)

\* { ...a, ...b } on maps kept as sets of entries
MapMerge(a, b) == {e \in a : e.key \notin {f.key : f \in b}} \cup b

\* getPatientUuidMapFromFhirPatient: the identifiers of the patient's own
\* name and address records.
PatientUuidMapFromFhirPatient(p) ==
  {[key |-> <<"preferredNameUuid">>, value |-> <<"name-of", p.id>>],
   [key |-> <<"preferredAddressUuid">>, value |-> <<"address-of", p.id>>]}

RECURSIVE PatientAttributeUuidMapForPatient(_)
\* getPatientAttributeUuidMapForPatient
PatientAttributeUuidMapForPatient(attributes) ==
  IF attributes = <<>> THEN {}
  ELSE LET n == Len(attributes)
           attribute == attributes[n]
       IN MapPut(PatientAttributeUuidMapForPatient(SubSeq(attributes, 1, n - 1)),
                 <<"attribute", attribute.typeUuid>>, attribute.uuid)

\* _patientRegistrationData.initialAddressFieldValues of a queued draft
DraftAddressFieldValues == {[key |-> <<"cityVillage">>, value |-> "Draftville"]}

\* setPatientUuidMap({...patientUuidMap, ...getPatientUuidMapFromFhirPatient(
\* patientToEdit)}): a value built from the map the render captured.
CoreUuids(renderedMap) ==
  MapMerge(renderedMap, PatientUuidMapFromFhirPatient(src["patient"].data))

\* setPatientUuidMap(prev => ({...prev, ...getPatientAttributeUuidMapForPatient(
\* attributes)}))
AttributeUuids(prev) ==
  MapMerge(prev, PatientAttributeUuidMapForPatient(src["attributes"].data.results))

\* A render of the hook after the dependencies deps changed.
UuidMapCommit(deps) ==
  patientUuidMap' =
    [patientUuidMap EXCEPT
       !.rendered = patientUuidMap.latest,
       !.changed = FALSE,
       !.dirty = {"core"} \cup (deps \cap {"attributes"})]

UuidMapResolve(s, d) ==
  /\ patientUuidMap.dirty = {}
  /\ src[s].status \in {"loading", "failed"}
  /\ src' = [src EXCEPT ![s] = [status |-> "ok", data |-> d]]
  /\ UuidMapCommit({s})
  /\ UNCHANGED <<now, submission, patientUuid, sourcePatientId, syncQueue, rendered, latest,
                 mpiRendered, mpiLatest, formChanged, mpiFormChanged, dirty,
                 lookups, mpiCalls, fired, threw, logged, mounted>>

UuidMapFail(s) ==
  /\ patientUuidMap.dirty = {}
  /\ src[s].status = "loading"
  /\ src' = [src EXCEPT ![s] = [status |-> "failed", data |-> NoData]]
  /\ UuidMapCommit({s})
  /\ UNCHANGED <<now, submission, patientUuid, sourcePatientId, syncQueue, rendered, latest,
                 mpiRendered, mpiLatest, formChanged, mpiFormChanged, dirty,
                 lookups, mpiCalls, fired, threw, logged, mounted>>

\* A render caused by setPatientUuidMap alone.
UuidMapRender ==
  /\ patientUuidMap.dirty = {}
  /\ patientUuidMap.changed
  /\ UuidMapCommit({})
  /\ UNCHANGED <<now, submission, patientUuid, sourcePatientId, src, syncQueue, rendered, latest,
                 mpiRendered, mpiLatest, formChanged, mpiFormChanged, dirty,
                 lookups, mpiCalls, fired, threw, logged, mounted>>

\* The two effects of the last commit, in declaration order.
UuidMapFlush ==
  LET m == patientUuidMap
      setsCore == "core" \in m.dirty /\ CoreBranch
      startsLookup == "core" \in m.dirty /\ LookupBranch
      setsAttributes == "attributes" \in m.dirty /\ HasData("attributes")
      afterCore == IF setsCore THEN CoreUuids(m.rendered) ELSE m.latest
  IN /\ m.dirty # {}
     /\ startsLookup => m.lookups < MaxLookups
     /\ patientUuidMap' =
          [m EXCEPT
             !.latest = IF setsAttributes THEN AttributeUuids(afterCore) ELSE afterCore,
             !.changed = m.changed \/ setsCore \/ setsAttributes,
             !.lookups = IF startsLookup THEN m.lookups + 1 ELSE m.lookups,
             !.dirty = {}]
     /\ UNCHANGED <<now, submission, patientUuid, sourcePatientId, src, syncQueue, rendered, latest,
                    mpiRendered, mpiLatest, formChanged, mpiFormChanged, dirty,
                    lookups, mpiCalls, fired, threw, logged, mounted>>

\* .then(registration => setPatientUuidMap(registration?._patientRegistrationData
\* .initialAddressFieldValues ?? fallback)): nothing is set when find threw.
UuidMapLookupComplete ==
  LET m == patientUuidMap
      registration == PatientRegistrationLookup(patientUuid)
  IN /\ m.lookups > 0
     /\ patientUuidMap' =
          [m EXCEPT
             !.lookups = m.lookups - 1,
             !.latest = CASE registration.outcome = "found" -> DraftAddressFieldValues
                          [] registration.outcome = "none" -> {}
                          [] OTHER -> m.latest,
             !.changed = m.changed \/ registration.outcome # "threw"]
     /\ UNCHANGED <<now, submission, patientUuid, sourcePatientId, src, syncQueue, rendered, latest,
                    mpiRendered, mpiLatest, formChanged, mpiFormChanged, dirty,
                    lookups, mpiCalls, fired, threw, logged, mounted>>

NextUuidMap ==
  \/ UuidMapResolve("patient", CoreRecord)
  \/ \E d \in DataOf("attributes") : UuidMapResolve("attributes", d)
  \/ \E s \in {"patient", "attributes"} : UuidMapFail(s)
  \/ UuidMapRender
  \/ UuidMapFlush
  \/ UuidMapLookupComplete

SpecUuidMap == InitSettling /\ [][NextUuidMap]_vars

-----------------------------------------------------------------------------
(* onFormSubmit of the PatientRegistration component, opened for a new     *)
(* patient or for patient P1 while the core record is being fetched.        *)

\* What savePatientForm can reject with: the body of a failed request with
\* two, one or no global errors (a validation failure with field errors
\* only), a body with a message alone, an error without a body.
SaveErrors ==
  {[hasGlobalErrors |-> TRUE, globalErrors |-> <<"duplicate", "invalid">>,
    message |-> "Invalid Submission"],
   [hasGlobalErrors |-> TRUE, globalErrors |-> <<"duplicate">>,
    message |-> "Invalid Submission"],
   [hasGlobalErrors |-> TRUE, globalErrors |-> <<>>, message |-> "Invalid Submission"],
   [hasGlobalErrors |-> FALSE, globalErrors |-> <<>>, message |-> "Internal error"],
   [hasGlobalErrors |-> FALSE, globalErrors |-> <<>>, message |-> Undef]}

\* inEditMode = isLoadingPatientToEdit ? undefined
\*                                     : !!(uuidOfPatientToEdit && patientToEdit)
InEditMode ==
  IF IsLoading("patient") THEN Undef
  ELSE IF patientUuid # NoUuid /\ HasData("patient") THEN "true" ELSE "false"

\* !inEditMode, the first argument of savePatientForm: undefined is falsy.
NotInEditMode == InEditMode # "true"

\* The catch block: one snackbar for each global error if the body has the
\* list, else one for the message, else the error handler.
ErrorReports(error) ==
  IF error.hasGlobalErrors THEN Len(error.globalErrors) ELSE 1

\* The submit button is enabled (the session and the identifier types are
\* there, no submission is running) and the values pass validation: Formik
\* calls onFormSubmit, which calls savePatientForm and awaits it.
OnFormSubmit ==
  /\ ~submission.isSubmitting /\ ~submission.saving
  /\ submission.target = Undef
  /\ submission' =
       [submission EXCEPT
          !.isSubmitting = TRUE, !.saving = TRUE, !.called = TRUE,
          !.isNewPatient = NotInEditMode,
          !.fetchAtSubmit = src["patient"].status,
          !.outcome = "pending", !.reported = 0]
  /\ UNCHANGED <<now, patientUuid, sourcePatientId, src, syncQueue, rendered, latest,
                 mpiRendered, mpiLatest, formChanged, mpiFormChanged, dirty,
                 lookups, mpiCalls, fired, threw, logged, mounted, patientUuidMap>>

\* savePatientForm resolves: success snackbar and setTarget(redirectUrl);
\* Formik clears isSubmitting when the handler's promise settles.
SaveResolves ==
  /\ submission.saving
  /\ submission' =
       [submission EXCEPT
          !.saving = FALSE, !.isSubmitting = FALSE,
          !.target = "redirectUrl", !.outcome = "resolved"]
  /\ UNCHANGED <<now, patientUuid, sourcePatientId, src, syncQueue, rendered, latest,
                 mpiRendered, mpiLatest, formChanged, mpiFormChanged, dirty,
                 lookups, mpiCalls, fired, threw, logged, mounted, patientUuidMap>>

\* savePatientForm rejects with error: the catch block.
SaveRejects(error) ==
  /\ submission.saving
  /\ submission' =
       [submission EXCEPT
          !.saving = FALSE, !.isSubmitting = FALSE,
          !.outcome = "rejected", !.reported = ErrorReports(error)]
  /\ UNCHANGED <<now, patientUuid, sourcePatientId, src, syncQueue, rendered, latest,
                 mpiRendered, mpiLatest, formChanged, mpiFormChanged, dirty,
                 lookups, mpiCalls, fired, threw, logged, mounted, patientUuidMap>>

InitSubmit == Mount(ComponentEffects, {<<NoUuid, NoUuid>>, <<P1, NoUuid>>}, {Today})

NextSubmit ==
  \/ Resolve("patient", CoreRecord)
  \/ Fail("patient")
  \/ Render
  \/ FlushEffects
  \/ \E i \in DOMAIN lookups : LookupComplete(i)
  \/ OnFormSubmit
  \/ SaveResolves
  \/ \E error \in SaveErrors : SaveRejects(error)

SpecSubmit == InitSubmit /\ [][NextSubmit]_vars

-----------------------------------------------------------------------------
(* Properties *)

\* Every fetch has ended, with data or with an error.
AllComplete == \A s \in Sources : ~IsLoading(s)

\* The queue holds a draft whose form-state identifier is the requested one.
MatchingDraft ==
  \E i \in DOMAIN syncQueue :
     syncQueue[i].hasFormValues /\ syncQueue[i].formValues.patientUuid = patientUuid

\* The queue holds a draft of the requested patient that lacks its form values.
DraftWithoutFormValues ==
  \E i \in DOMAIN syncQueue :
     syncQueue[i].forPatient = patientUuid /\ ~syncQueue[i].hasFormValues

\* Nothing is pending: every fetch has ended, the effects of the last commit
\* have run and no lookup is in flight.
Settled == AllComplete /\ dirty = {} /\ lookups = <<>>

\* The four sources of the order-independence claim all delivered data.
PersonSourcesResolved == \A s \in PersonSources : HasData(s)

\* The snapshot the merges of the delivered data give, whatever their order.
MergedSnapshot ==
  LET base == DefaultFormValues(GenLocal)
      c == IF CoreBranch THEN CoreMerge(base, src["patient"].data) ELSE base
      d == IF DeathGuard THEN DeathMerge(c, src["death"].data) ELSE c
      r == IF RelationshipsGuard
           THEN RelationshipsMerge(d, src["relationships"].data) ELSE d
      i == IF IdentifiersGuard THEN IdentifiersMerge(r, InitialPatientIdentifiers) ELSE r
      a == IF AttributesGuard THEN AttributesMerge(i, src["attributes"].data) ELSE i
  IN IF EncountersGuard THEN EncountersMerge(a, InitialEncounters) ELSE a

CoreFields ==
  DOMAIN FormValuesFromFhirPatient(CoreRecord) \cup
    {"address", "phoneAttribute", "birthdateEstimated", "yearsEstimated",
     "monthsEstimated"}

\* C2: a merge is an overlay onto the latest snapshot: an effect pass in which
\* the core-record merge alone fires leaves every field the core record does
\* not write as the latest snapshot had it.
C2_CoreMergeOverlaysLatest ==
  [][(dirty # {} /\ dirty' = {} /\ Firing = {"core"}) =>
        \A k \in DOMAIN latest \ CoreFields : latest'[k] = latest[k]]_vars

\* C3: the offline-draft lookup is started only by an effect pass that sees
\* the core-record fetch ended without a record and a non-empty patient
\* identifier; while the core-record fetch is pending no lookup is in flight.
C3_LookupOnlyAfterCoreFetch ==
  [][/\ Len(lookups') > Len(lookups) =>
          src["patient"].status = "failed" /\ patientUuid # NoUuid
     /\ src'["patient"].status = "loading" => lookups' = <<>>]_vars

C3_Witness ==
  /\ lookups # <<>>
  /\ src["patient"].status = "failed"
  /\ patientUuid = P1

\* The fields the default-state claim lists hold their default.
ListedFieldsDefault ==
  \A k \in {"givenName", "middleName", "familyName", "gender", "telephoneNumber",
            "yearsEstimated", "monthsEstimated", "birthdateEstimated", "isDead",
            "relationships", "identifiers", "address"} :
     latest[k] = DefaultFormValues(GenLocal)[k]

NoCoreRecordNoDraft == ~HasData("patient") /\ ~MatchingDraft

\* C4 (as stated): without a core record and without a queued draft, the
\* form-state is the default once every fetch has ended.
C4_DefaultWithoutRecordOrDraft ==
  (Settled /\ NoCoreRecordNoDraft) => ListedFieldsDefault

\* C4 (amended): the same, when the death-info answer does not report a death
\* and the relationships and identifiers fetches deliver nothing.
C4_DefaultWhenPersonSourcesEmpty ==
  (/\ Settled /\ NoCoreRecordNoDraft
   /\ ~DeathGuard /\ ~HasData("relationships") /\ ~HasData("identifiers"))
    => ListedFieldsDefault

C4_Witness ==
  /\ Settled /\ NoCoreRecordNoDraft
  /\ patientUuid = P1 /\ syncQueue # <<>>
  /\ src["patient"].status = "failed"
  /\ HasData("death") /\ ~src["death"].data.dead
  /\ ~HasData("relationships") /\ ~HasData("identifiers")
  /\ threw

\* C5: with an identifier supplied, the core fetch ended without a record and
\* no matching draft in the queue, the lookup step does not throw or reject.
C5_LookupNeverRejects == ~MatchingDraft => ~threw

\* C6: when the draft of the requested patient lacks its form values, the
\* lookup step logs the anomaly, does not throw and leaves the form-state as
\* it was.
C6_MalformedDraftIsLoggedNoOp ==
  [][(Len(lookups') < Len(lookups) /\ DraftWithoutFormValues) =>
        (logged' /\ ~threw' /\ latest' = latest)]_vars

\* C7: the merge of a source whose fetch failed does not fire.
C7_FailedSourceNeverMerges ==
  \A s \in {"death", "attributes", "identifiers", "relationships", "encounters"} :
     src[s].status = "failed" => s \notin fired

\* C8: the fields a source merged in the last effect pass are still in the
\* snapshot: no step of another source (core merge, draft adoption, copy of
\* the master-index form-state) has reset or removed them.
C8_MergedFieldsSurvive ==
  /\ "death" \in fired => latest.isDead
  /\ "attributes" \in fired => latest.attributes.defined
  /\ "relationships" \in fired => latest.relationships # <<>>
  /\ "encounters" \in fired => latest.obs.defined

\* The master-index form-state holds the combined merge of record p.
MpiMerged(p) ==
  /\ mpiLatest.givenName = p.givenName /\ mpiLatest.familyName = p.familyName
  /\ mpiLatest.gender = p.gender /\ mpiLatest.birthdate = p.birthDate
  /\ mpiLatest.address = Map(p.address)
  /\ mpiLatest.attributes.defined
  /\ \E e \in mpiLatest.attributes.entries : e.value.v = p.phone

\* C9: once the master-index record has resolved and nothing of its effect is
\* pending, the master-index form-state holds the combined merge, for a
\* record with or without an identifier list.
C9_EveryResolvedRecordMerged ==
  (HasData("mpi") /\ dirty = {} /\ mpiCalls = <<>>) => MpiMerged(src["mpi"].data)

\* Systems of the external identifiers of record p that have a mapping.
MappedSystems == {m.fhirIdentifierSystem : m \in IdentifierMappings}

C11_DeathCauseFromDeathInfo ==
  [][(dirty # {} /\ dirty' = {} /\ "death" \in Firing) =>
        LET d == src["death"].data
        IN /\ d.causeOfDeathNonCoded # Null =>
                /\ latest'.deathCause = FreeTextFieldConceptUuid
                /\ latest'.nonCodedCauseOfDeath = d.causeOfDeathNonCoded
           /\ (d.causeOfDeathNonCoded = Null /\ d.causeOfDeath # Null) =>
                /\ latest'.deathCause = d.causeOfDeath
                /\ latest'.nonCodedCauseOfDeath = Null]_vars

C11_Witness ==
  /\ "death" \in fired
  /\ src["death"].data.causeOfDeathNonCoded = "fell from a tree"
  /\ latest.deathCause = FreeTextFieldConceptUuid
  /\ latest.nonCodedCauseOfDeath = "fell from a tree"

\* The stored birthdate of the core record the hook sees.
StoredBirthDate == src["patient"].data.birthDate

\* C12: for a stored birthdate of year precision the core-record merge sets
\* birthdateEstimated, monthsEstimated 0 and yearsEstimated to the whole
\* months from January 1st of that year to the current date, divided by 12
\* and rounded down.
C12_YearOnlyBirthdate ==
  ("core" \in fired /\ Len(StoredBirthDate) = 1) =>
     /\ latest.birthdateEstimated
     /\ latest.monthsEstimated = 0
     /\ latest.yearsEstimated =
          ((now[1] - StoredBirthDate[1]) * 12 + (now[2] - 1)) \div 12

C12_Witness ==
  /\ "core" \in fired /\ StoredBirthDate = <<1990>> /\ now = <<2024, 12, 31>>
  /\ latest.birthdateEstimated
  /\ latest.yearsEstimated = 34 /\ latest.monthsEstimated = 0

\* C13: for a stored birthdate of full precision the core-record merge sets
\* birthdateEstimated false and both estimates 0, whatever the current date.
C13_FullBirthdate ==
  ("core" \in fired /\ Len(StoredBirthDate) = 3) =>
     /\ ~latest.birthdateEstimated
     /\ latest.yearsEstimated = 0
     /\ latest.monthsEstimated = 0

C13_Witness ==
  /\ "core" \in fired /\ StoredBirthDate = <<1990, 6, 15>> /\ now = <<2025, 6, 15>>
  /\ latest.birthdate = <<1990, 6, 15>>
  /\ ~latest.birthdateEstimated /\ latest.yearsEstimated = 0

\* A name with every letter lower-cased.
FoldCase(name) == [i \in DOMAIN name |-> ToLower(name[i])]

RECURSIVE CollapseSpaces(_)
\* A name with every run of spaces reduced to one space.
CollapseSpaces(name) ==
  IF Len(name) < 2 THEN name
  ELSE IF name[1] = " " /\ name[2] = " " THEN CollapseSpaces(Tail(name))
  ELSE <<name[1]>> \o CollapseSpaces(Tail(name))

\* Two names differ at most in letter case and in the amount of whitespace.
SameUpToCaseAndSpacing(a, b) ==
  CollapseSpaces(FoldCase(a)) = CollapseSpaces(FoldCase(b))

\* No small letter is followed by a capital and no two capitals by a small
\* letter: every word of the name is written in small letters, in capitals
\* or capitalised.
PlainlyWritten(name) ==
  /\ \A i \in 1..(Len(name) - 1) : ~(IsLower(name[i]) /\ IsUpper(name[i + 1]))
  /\ \A i \in 1..(Len(name) - 2) :
        ~(IsUpper(name[i]) /\ IsUpper(name[i + 1]) /\ IsLower(name[i + 2]))

\* C14 (as stated): the identifier map the identifiers merge wrote has no
\* two entries whose type names differ only in letter case or in the amount
\* of whitespace: such names share one key.
C14_KeyIgnoresCaseAndSpacing ==
  "identifiers" \in fired =>
     \A e1, e2 \in latest.identifiers.entries :
        SameUpToCaseAndSpacing(e1.value.identifierName, e2.value.identifierName)
          => e1 = e2

\* C14 (amended): of two fetched type names that differ only in letter case
\* or in the amount of whitespace and whose words are each written in small
\* letters, in capitals or capitalised, the map holds one entry at most:
\* they share one key.
C14_KeyIgnoresCaseAndSpacingOfPlainNames ==
  "identifiers" \in fired =>
     \A i, j \in DOMAIN src["identifiers"].data.results :
        LET a == src["identifiers"].data.results[i].typeName
            b == src["identifiers"].data.results[j].typeName
        IN (PlainlyWritten(a) /\ PlainlyWritten(b) /\ SameUpToCaseAndSpacing(a, b)) =>
              Cardinality({e \in latest.identifiers.entries :
                             e.value.identifierName \in {a, b}}) <= 1

C14_Witness ==
  /\ "identifiers" \in fired
  /\ Len(src["identifiers"].data.results) = 2
  /\ src["identifiers"].data.results[1].typeName = NationalIdName
  /\ src["identifiers"].data.results[2].typeName = NationalIdMixedName
  /\ Cardinality(latest.identifiers.entries) = 1

\* No state update waits for its render, no effect for its run, no lookup
\* for its answer.
Quiet == dirty = {} /\ ~formChanged /\ lookups = <<>>

\* C15: the reconciliation quiesces: once every source has ended, a point
\* comes from which no state update, no effect and no lookup is pending.
C15_Quiesces == [](AllComplete => <>[]Quiet)

\* C16: what the form layer wrote through the setter stays in the snapshot
\* while no source delivers and the patient identifier does not change: no
\* step takes the written given name out of the snapshot.
C16_SetterValueStays ==
  [][(latest.givenName = EditedName /\ src' = src /\ patientUuid' = patientUuid)
        => latest'.givenName = EditedName]_vars

\* Position in the queue of the first draft whose form-state identifier is
\* the requested one.
FirstMatch ==
  CHOOSE i \in DOMAIN syncQueue :
     /\ syncQueue[i].hasFormValues
     /\ syncQueue[i].formValues.patientUuid = patientUuid
     /\ \A j \in 1..(i - 1) : syncQueue[j].formValues.patientUuid # patientUuid

\* The lookup finds a draft: one matches and every item up to it carries its
\* form values.
LookupFinds ==
  /\ MatchingDraft
  /\ \A j \in 1..FirstMatch : syncQueue[j].hasFormValues

\* C17: the step that completes a lookup which finds a matching draft leaves
\* the draft's stored form-state as the snapshot, every field of it, whatever
\* the other sources had merged before.
C17_DraftAdoptedVerbatim ==
  [][(Len(lookups') < Len(lookups) /\ LookupFinds) =>
        latest' = syncQueue[FirstMatch].formValues]_vars

C17_Witness ==
  /\ LookupFinds /\ lookups = <<>>
  /\ latest = syncQueue[FirstMatch].formValues
  /\ "death" \in fired /\ src["death"].data.dead
  /\ ~latest.isDead

\* C18: isDead is true in the snapshot only if the death info delivered now
\* for the requested patient marks the person deceased, also after the death
\* info was fetched again and after the requested patient changed.
C18_IsDeadOnlyIfDeceased ==
  latest.isDead => (HasData("death") /\ src["death"].data.dead)

\* The observations of encounter e as the form keeps them: one entry for
\* each concept, a coded value as the identifier of the concept it refers to.
ObsOf(e) ==
  {[key |-> e.obs[k].concept,
    value |-> IF e.obs[k].isObject THEN e.obs[k].uuid ELSE e.obs[k].scalar] :
   k \in DOMAIN e.obs}

C20_BothMergesKept ==
  (/\ HasData("patient") /\ HasData("attributes")
   /\ patientUuidMap.dirty = {} /\ patientUuidMap.lookups = 0) =>
     /\ PatientUuidMapFromFhirPatient(src["patient"].data) \subseteq patientUuidMap.latest
     /\ \A i \in DOMAIN AttributeResults :
           [key |-> <<"attribute", AttributeResults[i].typeUuid>>,
            value |-> AttributeResults[i].uuid] \in patientUuidMap.latest

\* The identifier merge of the last effect pass wrote the delivered records.
IdentifiersMerged == HasData("identifiers") /\ "identifiers" \in fired

\* C21 (as stated): every raw identifier record yields one entry of the
\* identifier map: as many entries as records, each with initialValue equal
\* to identifierValue, selectedSource null and autoGeneration false.
C21_OneEntryPerRecord ==
  IdentifiersMerged =>
    /\ Cardinality(latest.identifiers.entries) = Len(src["identifiers"].data.results)
    /\ \A e \in latest.identifiers.entries :
          /\ e.value.initialValue = e.value.identifierValue
          /\ e.value.selectedSource = Null
          /\ ~e.value.autoGeneration

\* C21 (amended): the map has one entry for each key the type names of the
\* records give; the entry of a key is built from the last record with that
\* key: initialValue and identifierValue are its raw identifier,
\* selectedSource is null and autoGeneration is false.
C21_OneEntryPerKey ==
  IdentifiersMerged =>
    LET results == src["identifiers"].data.results
        KeyOf(i) == CamelCase(results[i].typeName)
        last == {i \in DOMAIN results :
                   \A j \in DOMAIN results : j > i => KeyOf(j) # KeyOf(i)}
    IN /\ Cardinality(latest.identifiers.entries) = Cardinality(last)
       /\ \A i \in last :
             \E e \in latest.identifiers.entries :
                /\ e.key = KeyOf(i)
                /\ e.value.identifierUuid = results[i].uuid
                /\ e.value.initialValue = results[i].identifier
                /\ e.value.identifierValue = results[i].identifier
                /\ e.value.selectedSource = Null
                /\ ~e.value.autoGeneration

\* Two records whose type names give one key were merged.
C21_Witness ==
  /\ IdentifiersMerged
  /\ Len(src["identifiers"].data.results) = 2
  /\ Cardinality(latest.identifiers.entries) = 1
  /\ \E e \in latest.identifiers.entries : e.value.identifierValue = <<"value", 2>>

\* The attribute merge of the last effect pass wrote the delivered attributes.
AttributesMerged == HasData("attributes") /\ "attributes" \in fired

C23_RejectionReportedNoRedirect ==
  /\ submission.target # Undef => submission.outcome = "resolved"
  /\ submission.outcome = "rejected" =>
        /\ submission.target = Undef
        /\ submission.reported > 0
        /\ ~submission.isSubmitting

\* C24: a submission made with a patient identifier in the route for which a
\* core record exists calls savePatientForm with isNewPatient false, also
\* when it is made while the fetch that then delivers the record is pending.
C24_ExistingPatientNeverSavedAsNew ==
  (/\ submission.called /\ patientUuid # NoUuid
   /\ \/ submission.fetchAtSubmit = "ok"
      \/ submission.fetchAtSubmit = "loading" /\ HasData("patient")) =>
     ~submission.isNewPatient
=============================================================================
